---- MODULE Spec2Model ----
(***************************************************************************)
(* A model of the coffee/tea Slack bot of src/app.js: the spreadsheet      *)
(* ledger, the in-memory counters, the per-user control message, the       *)
(* settlement flags and the monthly broadcast.                             *)
(*                                                                         *)
(* Every handler is an async function: it runs synchronously up to an      *)
(* awaited external call, is suspended there, and is resumed by the call's *)
(* response (or failure).  One action models one such synchronous run, so  *)
(* the handlers of the process slots interleave exactly at the awaits.     *)
(*                                                                         *)
(* Encodings.  A point in time is a month index t (months since year 0):   *)
(* getFullYear is t \div 12 and getMonth is t % 12.  The Date cell of a    *)
(* ledger row is what toISOString wrote, kept at month precision as        *)
(* <<year, month 1..12>>; any other sequence is text new Date() cannot     *)
(* parse.  A price is kept in cents; a Price cell that is no number is -1. *)
(***************************************************************************)
EXTENDS Integers, Sequences, FiniteSets, TLC

\* ------------------------------------------------------------------ bounds
MaxTicks == 1
MaxStarts == 2
MaxPresses == 3
MaxFailures == 1
MaxOps == 4
MaxLedger == 2
MaxTriggers == 3

\* --------------------------------------------------- program configuration
coffeePrice == 200
teaPrice == 150

\* The first month of a run: December 2024, so that the first tick crosses a year.
StartTime == (2024 * 12) + 11

\* ------------------------------------------------------------ the workspace
\* Users that press buttons and run commands.
Users == {"U1", "U2"}
\* What users.list returns: three people, a workspace bot, a deleted account
\* and an enterprise-grid account whose identifier starts with W.
Directory ==
  << [id |-> "U1", is_bot |-> FALSE, deleted |-> FALSE],
     [id |-> "B7", is_bot |-> TRUE,  deleted |-> FALSE],
     [id |-> "U2", is_bot |-> FALSE, deleted |-> FALSE],
     [id |-> "U8", is_bot |-> FALSE, deleted |-> TRUE],
     [id |-> "W9", is_bot |-> FALSE, deleted |-> FALSE],
     [id |-> "U3", is_bot |-> FALSE, deleted |-> FALSE] >>
AllIds == {Directory[i].id : i \in 1..Len(Directory)}
\* u.id.startsWith('U')
StartsWithU(id) == id \in {"U1", "U2", "U3", "U8"}
\* The handler slots: Bolt runs each incoming request as its own async call.
Procs == {"h1", "h2"}
Kinds == {"coffee", "tea"}
\* The handlers of app.action(...): none of them has a try/catch.
Interactions == {"choice", "revoke", "settled"}

\* ------------------------------------------------------------------- dates
getFullYear(t) == t \div 12
getMonth(t) == t % 12
toISOString(t) == << getFullYear(t), getMonth(t) + 1 >>
NaN == -1
\* new Date(dateStr).getTime(), NaN for text that is no date
DateParse(cell) ==
  IF Len(cell) = 2 /\ cell[2] \in 1..12 THEN (cell[1] * 12) + (cell[2] - 1) ELSE NaN
getCurrentMonthKey(t) == << getFullYear(t), getMonth(t) + 1 >>

\* ---------------------------------------------------------------- the sheet
Header == [user |-> "UserID", date |-> <<0>>, choice |-> "Choice", price |-> -1]
EmptyRow == [user |-> "", date |-> <<>>, choice |-> "", price |-> -1]
Row(u, t, c) ==
  [user |-> u, date |-> toISOString(t), choice |-> c,
   price |-> IF c = "coffee" THEN coffeePrice ELSE teaPrice]
\* parseFloat(row[4] || '0') || 0
ParsePrice(cell) == IF cell < 0 THEN 0 ELSE cell
\* firstRow.length === 0 || firstRow.every(c => !c || `${c}`.trim() === '')
FirstRowIsEmpty(s) == Len(s) = 0 \/ s[1] = EmptyRow

ZeroSummary == [coffee |-> 0, tea |-> 0, amount |-> 0]

SummaryAddAnyMonth(acc, row, userId, t) ==
  IF row.user # userId THEN acc
  ELSE IF DateParse(row.date) = NaN THEN acc
  ELSE [coffee |-> acc.coffee + (IF row.choice = "coffee" THEN 1 ELSE 0),
        tea    |-> acc.tea + (IF row.choice = "tea" THEN 1 ELSE 0),
        amount |-> acc.amount + ParsePrice(row.price)]
\* One pass of the loop body of getUserMonthlySummary over a row.
SummaryAdd(acc, row, userId, t) ==
  IF row.user # userId THEN acc
  ELSE IF DateParse(row.date) = NaN THEN acc
  ELSE IF getFullYear(DateParse(row.date)) = getFullYear(t)
          /\ getMonth(DateParse(row.date)) = getMonth(t)
       THEN [coffee |-> acc.coffee + (IF row.choice = "coffee" THEN 1 ELSE 0),
             tea    |-> acc.tea + (IF row.choice = "tea" THEN 1 ELSE 0),
             amount |-> acc.amount + ParsePrice(row.price)]
       ELSE acc

RECURSIVE SummaryLoop(_, _, _, _, _)
SummaryLoop(rows, i, userId, t, acc) ==
  IF i > Len(rows) THEN acc
  ELSE SummaryLoop(rows, i + 1, userId, t, SummaryAdd(acc, rows[i], userId, t))
\* for (let i = 1; i < rows.length; i++): rows[1] of the model is row 0, the header
getUserMonthlySummary(rows, userId, t) == SummaryLoop(rows, 2, userId, t, ZeroSummary)

\* ------------------------------------------------------------------- state
VARIABLES
  now,              \* the wall clock, a month index
  sheet,            \* the spreadsheet's rows A:E, row 0 first
  storeSheetId,     \* the sheetId the spreadsheet gives the sheet titled sheetTitle
  userChoices,      \* userChoices[userId] = {coffee, tea}, or Undefined
  userMessageRefs,  \* userMessageRefs[userId] = {channelId, ts, monthKey}, or NoRef
  monthlySettled,   \* monthlySettled[monthKey][userId]
  sheetIdCache,     \* null (NullId) until getSheetId stores the sheet's id
  botUserId,        \* auth.user_id of auth.test at startup, or null (NoBot)
  posted,           \* the control messages chat.postMessage created in the DMs;
                    \* live is FALSE once chat.delete has removed the message
  timers,           \* pending setTimeout callbacks of scheduleMonthlyBroadcast
  failLog,          \* console.error(`Failed to DM ...`) lines of the running broadcast
  delivered,        \* control messages the running broadcast posted or updated
  proc,             \* the handler slots: position and locals of each async call
  unhandled,        \* handler kinds whose promise was rejected (the error escaped)
  swallowed,        \* /coffee_tea: the fallback failed too and was only logged
  budget,           \* handlers started and calls failed so far (bound the runs)
  hist              \* the calls completed one after the other (serial runs)

vars == << now, sheet, storeSheetId, botUserId, userChoices, userMessageRefs, monthlySettled,
           sheetIdCache, posted, timers, failLog, delivered, proc, unhandled,
           swallowed, budget, hist >>

Undefined == [coffee |-> -1, tea |-> -1]
NoChannel == << >>
NoRef == [channelId |-> NoChannel, ts |-> 0, monthKey |-> << >>]
NullId == -1
NoBot == ""
\* auth.test answers with the bot's user id, or fails and botUserId stays null
BotUserIds == {"B0", NoBot}
NoDate == -1
NoSummary == [u \in {} |-> ZeroSummary]
NoFlags == [k \in {} |-> [u \in {} |-> FALSE]]
Zeroes == [id \in AllIds |-> 0]

Idle ==
  [pc |-> "idle", kind |-> "none", user |-> "", choice |-> "", date |-> NoDate,
   channelId |-> NoChannel, lastIndex |-> -1, sent |-> {},
   members |-> << >>, idx |-> 0, summary |-> NoSummary, ts |-> 0, msgs |-> {}]

AllIdle == \A p \in Procs : proc[p].pc = "idle"

\* resp.channel.id of conversations.open({users: userId})
openDmChannel(userId) == << "D", userId >>

\* ------------------------------------------------------ in-memory helpers
\* if (!userChoices[userId]) userChoices[userId] = { coffee: 0, tea: 0 }
EnsureCounters(uc, u) ==
  IF uc[u] = Undefined THEN [uc EXCEPT ![u] = [coffee |-> 0, tea |-> 0]] ELSE uc
IncrementAfterAppend(uc, u, c) == uc
\* userChoices[userId][choice]++
Increment(uc, u, c) ==
  IF c = "coffee" THEN [uc EXCEPT ![u].coffee = @ + 1]
  ELSE IF c = "tea" THEN [uc EXCEPT ![u].tea = @ + 1]
  ELSE uc
MaxOf(a, b) == IF a > b THEN a ELSE b
DecrementCoffee(uc, u, c) == [uc EXCEPT ![u].coffee = MaxOf(0, @ - 1)]
\* userChoices[userId][lastChoice] = Math.max(0, userChoices[userId][lastChoice] - 1)
Decrement(uc, u, c) ==
  IF c = "coffee" THEN [uc EXCEPT ![u].coffee = MaxOf(0, @ - 1)]
  ELSE IF c = "tea" THEN [uc EXCEPT ![u].tea = MaxOf(0, @ - 1)]
  ELSE uc

\* !!(monthlySettled[monthKey] && monthlySettled[monthKey][userId])
IsSettled(ms, k, u) == k \in DOMAIN ms /\ u \in DOMAIN ms[k] /\ ms[k][u]
SetSettledAnyMonth(ms, k, u, v) ==
  [x \in DOMAIN ms \cup {k} |->
     [y \in (IF x \in DOMAIN ms THEN DOMAIN ms[x] ELSE {}) \cup {u} |->
        IF y = u THEN v ELSE ms[x][y]]]
\* if (!monthlySettled[monthKey]) monthlySettled[monthKey] = {};
\* monthlySettled[monthKey][userId] = !!selected
SetSettled(ms, k, u, v) ==
  [x \in DOMAIN ms \cup {k} |->
     IF x = k
     THEN [y \in (IF k \in DOMAIN ms THEN DOMAIN ms[k] ELSE {}) \cup {u} |->
             IF y = u THEN v ELSE ms[k][y]]
     ELSE ms[x]]

\* ----------------------------------------------------------- ledger helpers
\* values.update of A1:E1 with the header
WriteHeader(s) == IF Len(s) = 0 THEN << Header >> ELSE [s EXCEPT ![1] = Header]
ScanBackAnyUser(rows, i, userId) == IF i >= 1 THEN i ELSE -1
ScanFirst(rows, i, userId) ==
  LET found == {j \in 1..i : rows[j + 1].user = userId}
  IN IF found = {} THEN -1 ELSE CHOOSE j \in found : \A k \in found : j <= k
\* for (let i = rows.length - 1; i >= 1; i--) if (rows[i][0] === userId) ...
\* i is the 0-based index of the code; the result is lastIndex, -1 when none
RECURSIVE ScanBack(_, _, _)
ScanBack(rows, i, userId) ==
  IF i < 1 THEN -1
  ELSE IF rows[i + 1].user = userId THEN i
  ELSE ScanBack(rows, i - 1, userId)
LastIndexOf(rows, userId) == ScanBack(rows, Len(rows) - 1, userId)
\* deleteDimension ROWS [startIndex, startIndex + 1): the rows below move up
DeleteRow(s, i) ==
  IF i + 1 > Len(s) THEN s
  ELSE [j \in 1..(Len(s) - 1) |-> IF j < i + 1 THEN s[j] ELSE s[j + 1]]
\* if (sheetIdCache) return sheetIdCache
CacheHit(cache) == cache # NullId /\ cache # 0

\* rows.forEach of /monthly_tally, one row
TallyAdd(summary, row) ==
  LET old == IF row.user \in DOMAIN summary THEN summary[row.user] ELSE ZeroSummary
      new == [coffee |-> old.coffee + (IF row.choice = "coffee" THEN 1 ELSE 0),
              tea    |-> old.tea + (IF row.choice = "tea" THEN 1 ELSE 0),
              amount |-> old.amount + ParsePrice(row.price)]
  IN [u \in DOMAIN summary \cup {row.user} |-> IF u = row.user THEN new ELSE summary[u]]
RECURSIVE TallyLoop(_, _, _)
TallyLoop(rows, i, summary) ==
  IF i > Len(rows) THEN summary
  ELSE TallyLoop(rows, i + 1, TallyAdd(summary, rows[i]))
\* if (idx === 0) return; // skip header
TallySummary(rows) == TallyLoop(rows, 2, NoSummary)

\* -------------------------------------------- sendOrUpdateControlMessage
ShouldUpdateAnyMonth(record, monthKey) == record.ts # 0
\* if (record && record.ts && record.monthKey === monthKey)
ShouldUpdate(record, monthKey) == record.ts # 0 /\ record.monthKey = monthKey

\* The call: monthLabel, monthKey and the summary's date are read from the clock,
\* then buildControlBlocks awaits the ledger read.
SouCall(rec, u) ==
  [rec EXCEPT !.pc = "sou_summary", !.user = u, !.date = now, !.choice = "",
              !.channelId = NoChannel, !.sent = {}, !.ts = 0]

\* lines 179-185: read the record, then issue chat.update or chat.postMessage
SouDecide(rec, channelId) ==
  IF ShouldUpdate(userMessageRefs[rec.user], getCurrentMonthKey(rec.date))
  THEN [rec EXCEPT !.pc = "sou_update", !.channelId = channelId,
                   !.sent = @ \cup {"update"}, !.ts = userMessageRefs[rec.user].ts]
  ELSE [rec EXCEPT !.pc = "sou_post", !.channelId = channelId,
                   !.sent = @ \cup {"post"}]

\* resp.ts: unique in the channel
NextTs(u) == Cardinality({m \in posted : m.user = u}) + 1
\* The message ts is still in the user's DM (chat.update answers message_not_found
\* otherwise).
MessageExists(u, ts) == \E m \in posted : m.user = u /\ m.ts = ts /\ m.live

\* ------------------------------------------------------------ the broadcast
\* filter(u => !u.is_bot && !u.deleted && u.id && u.id.startsWith('U'))
Eligible(m) == ~m.is_bot /\ ~m.deleted /\ StartsWithU(m.id)
RECURSIVE FilterMembers(_, _)
FilterMembers(dir, i) ==
  IF i > Len(dir) THEN << >>
  ELSE IF Eligible(dir[i]) THEN << dir[i].id >> \o FilterMembers(dir, i + 1)
  ELSE FilterMembers(dir, i + 1)
BcAbortAfterThrow(idx, n) == n + 1
\* catch (e) { console.error(`Failed to DM ...`) } and the loop goes on
BcAfterThrow(idx, n) == idx + 1
\* for (const u of members): the call for member i, or the end of the loop
BcStep(rec, i) ==
  IF i > Len(rec.members) THEN Idle
  ELSE SouCall([rec EXCEPT !.idx = i], rec.members[i])

SouPcs == {"sou_summary", "sou_open", "sou_update", "sou_post"}
Awaiting ==
  SouPcs \cup {"lc_hdr_read", "lc_hdr_write", "lc_append", "rv_read", "rv_meta",
               "rv_delete", "fb_summary", "fb_respond", "tally_read", "tally_post",
               "bc_list", "cd_open", "cd_history", "cd_delete", "cd_respond",
               "cd_error"}

\* The sheetId of a spreadsheet's first sheet is 0; a sheet added later gets
\* another number.
StoreSheetIds == {0, 7}

\* ------------------------------------------------------------ initial state
\* The in-memory state of a process that has just started.
Fresh ==
  /\ userChoices = [u \in Users |-> Undefined]
  /\ userMessageRefs = [id \in AllIds |-> NoRef]
  /\ monthlySettled = NoFlags
  /\ sheetIdCache = NullId
  /\ posted = {}
  /\ timers = 1
  /\ failLog = Zeroes
  /\ delivered = Zeroes
  /\ proc = [p \in Procs |-> Idle]
  /\ unhandled = FALSE
  /\ swallowed = FALSE
  /\ budget = [starts |-> 0, fails |-> 0]
  /\ hist = << >>

\* The process has just started against an empty spreadsheet.
Init ==
  /\ now = StartTime
  /\ sheet = << >>
  /\ storeSheetId \in StoreSheetIds
  /\ botUserId = "B0"
  /\ Fresh

\* The spreadsheet's first sheet is the ledger.
InitFirstSheet == Init /\ storeSheetId = 0

\* -------------------------------------------------------- handler entries
\* Each entry is the handler's synchronous run up to its first awaited call.

\* app.command('/coffee_tea')
SlashCommandBody(p, u) ==
  /\ proc[p].pc = "idle"
  /\ userChoices' = EnsureCounters(userChoices, u)
  /\ proc' = [proc EXCEPT ![p] = SouCall([Idle EXCEPT !.kind = "slash"], u)]
  /\ UNCHANGED << now, sheet, storeSheetId, botUserId, userMessageRefs, monthlySettled,
                  sheetIdCache, posted, timers, failLog, delivered, unhandled,
                  swallowed >>

\* app.action('coffee_choice') / app.action('tea_choice'): logChoice up to the
\* awaits of getUserDisplayName (which never throws and touches no shared state)
\* and of the first-row read of ensureHeaderRow
ChoiceBody(p, u, c) ==
  /\ proc[p].pc = "idle"
  /\ userChoices' = Increment(EnsureCounters(userChoices, u), u, c)
  /\ proc' = [proc EXCEPT ![p] = [Idle EXCEPT !.pc = "lc_hdr_read", !.kind = "choice",
                                              !.user = u, !.choice = c]]
  /\ UNCHANGED << now, sheet, storeSheetId, botUserId, userMessageRefs, monthlySettled,
                  sheetIdCache, posted, timers, failLog, delivered, unhandled,
                  swallowed >>

\* app.action('revoke_choice'): revokeLastChoice up to the ledger read
RevokeBody(p, u) ==
  /\ proc[p].pc = "idle"
  /\ proc' = [proc EXCEPT ![p] = [Idle EXCEPT !.pc = "rv_read", !.kind = "revoke",
                                              !.user = u]]
  /\ UNCHANGED << now, sheet, storeSheetId, botUserId, userChoices, userMessageRefs,
                  monthlySettled, sheetIdCache, posted, timers, failLog, delivered,
                  unhandled, swallowed >>

\* app.action('settled_toggle')
SettledBody(p, u, selected) ==
  /\ proc[p].pc = "idle"
  /\ monthlySettled' = SetSettled(monthlySettled, getCurrentMonthKey(now), u, selected)
  /\ proc' = [proc EXCEPT ![p] = SouCall([Idle EXCEPT !.kind = "settled"], u)]
  /\ UNCHANGED << now, sheet, storeSheetId, botUserId, userChoices, userMessageRefs,
                  sheetIdCache, posted, timers, failLog, delivered, unhandled,
                  swallowed >>

\* app.command('/monthly_tally') up to the ledger read
TallyBody(p) ==
  /\ proc[p].pc = "idle"
  /\ proc' = [proc EXCEPT ![p] = [Idle EXCEPT !.pc = "tally_read", !.kind = "tally"]]
  /\ UNCHANGED << now, sheet, storeSheetId, botUserId, userChoices, userMessageRefs,
                  monthlySettled, sheetIdCache, posted, timers, failLog, delivered,
                  unhandled, swallowed >>

\* the setTimeout callback of scheduleMonthlyBroadcast: broadcastForCurrentMonth
\* up to the await of users.list
TimerBody(p) ==
  /\ proc[p].pc = "idle"
  /\ timers > 0
  /\ timers' = timers - 1
  /\ failLog' = Zeroes
  /\ delivered' = Zeroes
  /\ proc' = [proc EXCEPT ![p] = [Idle EXCEPT !.pc = "bc_list", !.kind = "broadcast"]]
  /\ UNCHANGED << now, sheet, storeSheetId, botUserId, userChoices, userMessageRefs,
                  monthlySettled, sheetIdCache, posted, unhandled, swallowed >>

\* app.command('/coffee_clear_dm') up to the await of conversations.open
ClearBody(p, u) ==
  /\ proc[p].pc = "idle"
  /\ proc' = [proc EXCEPT ![p] = [Idle EXCEPT !.pc = "cd_open", !.kind = "clear",
                                              !.user = u]]
  /\ UNCHANGED << now, sheet, storeSheetId, botUserId, userChoices, userMessageRefs,
                  monthlySettled, sheetIdCache, posted, timers, failLog, delivered,
                  unhandled, swallowed >>

\* ------------------------------------------------- resumptions: logChoice
\* ensureHeaderRow: the first row has been read
LcHeaderRead(p) ==
  /\ proc[p].pc = "lc_hdr_read"
  /\ proc' = [proc EXCEPT ![p] =
       IF FirstRowIsEmpty(sheet) THEN [@ EXCEPT !.pc = "lc_hdr_write"]
       ELSE [@ EXCEPT !.pc = "lc_append", !.date = now]]
  /\ UNCHANGED << now, sheet, storeSheetId, botUserId, userChoices, userMessageRefs,
                  monthlySettled, sheetIdCache, posted, timers, failLog, delivered,
                  unhandled, swallowed, budget, hist >>

\* ensureHeaderRow: the header has been written; logChoice builds the row
\* (new Date().toISOString()) and awaits values.append
LcHeaderWrite(p) ==
  /\ proc[p].pc = "lc_hdr_write"
  /\ sheet' = WriteHeader(sheet)
  /\ proc' = [proc EXCEPT ![p] = [@ EXCEPT !.pc = "lc_append", !.date = now]]
  /\ UNCHANGED << now, storeSheetId, botUserId, userChoices, userMessageRefs, monthlySettled,
                  sheetIdCache, posted, timers, failLog, delivered, unhandled,
                  swallowed, budget, hist >>

\* values.append has added the row; the handler goes on to
\* sendOrUpdateControlMessage
LcAppend(p) ==
  /\ proc[p].pc = "lc_append"
  /\ sheet' = Append(sheet, Row(proc[p].user, proc[p].date, proc[p].choice))
  /\ proc' = [proc EXCEPT ![p] = SouCall(@, @.user)]
  /\ UNCHANGED << now, storeSheetId, botUserId, userChoices, userMessageRefs, monthlySettled,
                  sheetIdCache, posted, timers, failLog, delivered, unhandled,
                  swallowed, budget, hist >>

\* ------------------------------------------- resumptions: revokeLastChoice
\* The rows have been read.  With a row of the user and no counters object the
\* decrement throws a TypeError, which leaves the handler.
RvRead(p) ==
  LET u == proc[p].user
      lastIndex == LastIndexOf(sheet, u)
  IN
  /\ proc[p].pc = "rv_read"
  /\ IF lastIndex > 0
     THEN IF userChoices[u] = Undefined
          THEN /\ proc' = [proc EXCEPT ![p] = Idle]
               /\ unhandled' = TRUE
               /\ UNCHANGED userChoices
          ELSE /\ userChoices' = Decrement(userChoices, u, sheet[lastIndex + 1].choice)
               /\ proc' = [proc EXCEPT ![p] =
                    [@ EXCEPT !.pc = IF CacheHit(sheetIdCache) THEN "rv_delete"
                                     ELSE "rv_meta",
                              !.lastIndex = lastIndex]]
               /\ UNCHANGED unhandled
     ELSE /\ proc' = [proc EXCEPT ![p] = SouCall(@, u)]
          /\ UNCHANGED << userChoices, unhandled >>
  /\ UNCHANGED << now, sheet, storeSheetId, botUserId, userMessageRefs, monthlySettled,
                  sheetIdCache, posted, timers, failLog, delivered, swallowed,
                  budget, hist >>

\* getSheetId: spreadsheets.get has answered
RvMeta(p) ==
  /\ proc[p].pc = "rv_meta"
  /\ sheetIdCache' = storeSheetId
  /\ proc' = [proc EXCEPT ![p] = [@ EXCEPT !.pc = "rv_delete"]]
  /\ UNCHANGED << now, sheet, storeSheetId, botUserId, userChoices, userMessageRefs,
                  monthlySettled, posted, timers, failLog, delivered, unhandled,
                  swallowed, budget, hist >>

\* batchUpdate has deleted the row at lastIndex
RvDelete(p) ==
  /\ proc[p].pc = "rv_delete"
  /\ sheet' = DeleteRow(sheet, proc[p].lastIndex)
  /\ proc' = [proc EXCEPT ![p] = SouCall(@, @.user)]
  /\ UNCHANGED << now, storeSheetId, botUserId, userChoices, userMessageRefs, monthlySettled,
                  sheetIdCache, posted, timers, failLog, delivered, unhandled,
                  swallowed, budget, hist >>

\* --------------------------- resumptions: sendOrUpdateControlMessage
\* buildControlBlocks: the summary has been read; monthKey is read from the clock
\* again for the settled flag (line 109)
Blocks(u, t) ==
  LET sum == getUserMonthlySummary(sheet, u, t)
  IN [coffee |-> sum.coffee, tea |-> sum.tea, amount |-> sum.amount,
      isSettled |-> IsSettled(monthlySettled, getCurrentMonthKey(now), u)]

\* What the caller does when sendOrUpdateControlMessage has returned: a handler
\* is done, the broadcast goes on to its next member.
AfterSou(rec) ==
  IF rec.kind = "broadcast" THEN BcStep(rec, rec.idx + 1) ELSE Idle
Delivered(rec) ==
  IF rec.kind = "broadcast" THEN [delivered EXCEPT ![rec.user] = @ + 1] ELSE delivered
TimersAfterLoopOnly(rec, next) ==
  IF rec.kind = "broadcast" /\ next.pc = "idle" /\ rec.pc \in SouPcs
  THEN timers + 1 ELSE timers
\* await broadcastForCurrentMonth(); scheduleMonthlyBroadcast(): when the
\* broadcast returns, however it ended, the next timer is set
TimersAfter(rec, next) ==
  IF rec.kind = "broadcast" /\ next.pc = "idle" THEN timers + 1 ELSE timers

\* lines 176-184: blocks are built; with a stored channel no channel is opened
\* and the record is read at once
SouSummary(p) ==
  LET rec == proc[p]
      ref == userMessageRefs[proc[p].user]
  IN
  /\ proc[p].pc = "sou_summary"
  /\ proc' = [proc EXCEPT ![p] =
       IF ref.channelId # NoChannel THEN SouDecide(rec, ref.channelId)
       ELSE [rec EXCEPT !.pc = "sou_open"]]
  /\ UNCHANGED << now, sheet, storeSheetId, botUserId, userChoices, userMessageRefs,
                  monthlySettled, sheetIdCache, posted, timers, failLog, delivered,
                  unhandled, swallowed, budget, hist >>

\* conversations.open has answered
SouOpen(p) ==
  /\ proc[p].pc = "sou_open"
  /\ proc' = [proc EXCEPT ![p] = SouDecide(@, openDmChannel(@.user))]
  /\ UNCHANGED << now, sheet, storeSheetId, botUserId, userChoices, userMessageRefs,
                  monthlySettled, sheetIdCache, posted, timers, failLog, delivered,
                  unhandled, swallowed, budget, hist >>

\* chat.update has answered
SouUpdate(p) ==
  LET next == AfterSou(proc[p])
  IN
  /\ proc[p].pc = "sou_update"
  /\ MessageExists(proc[p].user, proc[p].ts)
  /\ delivered' = Delivered(proc[p])
  /\ timers' = TimersAfter(proc[p], next)
  /\ proc' = [proc EXCEPT ![p] = next]
  /\ UNCHANGED << now, sheet, storeSheetId, botUserId, userChoices, userMessageRefs,
                  monthlySettled, sheetIdCache, posted, failLog, unhandled,
                  swallowed, budget, hist >>

\* chat.postMessage has answered: line 185 stores the new reference
SouPost(p) ==
  LET rec == proc[p]
      next == AfterSou(rec)
      ts == NextTs(rec.user)
      monthKey == getCurrentMonthKey(rec.date)
  IN
  /\ rec.pc = "sou_post"
  /\ posted' = posted \cup {[user |-> rec.user, ts |-> ts, monthKey |-> monthKey,
                               live |-> TRUE]}
  /\ userMessageRefs' = [userMessageRefs EXCEPT ![rec.user] =
       [channelId |-> rec.channelId, ts |-> ts, monthKey |-> monthKey]]
  /\ delivered' = Delivered(rec)
  /\ timers' = TimersAfter(rec, next)
  /\ proc' = [proc EXCEPT ![p] = next]
  /\ UNCHANGED << now, sheet, storeSheetId, botUserId, userChoices, monthlySettled,
                  sheetIdCache, failLog, unhandled, swallowed, budget, hist >>

\* ------------------------------------ resumptions: the /coffee_tea fallback
\* catch (error): buildControlBlocks again, its summary has been read
FbSummary(p) ==
  /\ proc[p].pc = "fb_summary"
  /\ proc' = [proc EXCEPT ![p] =
       [@ EXCEPT !.pc = "fb_respond"]]
  /\ UNCHANGED << now, sheet, storeSheetId, botUserId, userChoices, userMessageRefs,
                  monthlySettled, sheetIdCache, posted, timers, failLog, delivered,
                  unhandled, swallowed, budget, hist >>

\* respond() has shown the ephemeral controls
FbRespond(p) ==
  /\ proc[p].pc = "fb_respond"
  /\ proc' = [proc EXCEPT ![p] = Idle]
  /\ UNCHANGED << now, sheet, storeSheetId, botUserId, userChoices, userMessageRefs,
                  monthlySettled, sheetIdCache, posted, timers, failLog, delivered,
                  unhandled, swallowed, budget, hist >>

\* ------------------------------------------- resumptions: /monthly_tally
\* the rows have been read and summed; the posts follow
TallyRead(p) ==
  /\ proc[p].pc = "tally_read"
  /\ proc' = [proc EXCEPT ![p] =
       [@ EXCEPT !.pc = "tally_post", !.summary = TallySummary(sheet), !.date = now]]
  /\ UNCHANGED << now, sheet, storeSheetId, botUserId, userChoices, userMessageRefs,
                  monthlySettled, sheetIdCache, posted, timers, failLog, delivered,
                  unhandled, swallowed, budget, hist >>

\* for (const userId in summary) await chat.postMessage(...): all have answered
TallyPost(p) ==
  /\ proc[p].pc = "tally_post"
  /\ proc' = [proc EXCEPT ![p] = Idle]
  /\ UNCHANGED << now, sheet, storeSheetId, botUserId, userChoices, userMessageRefs,
                  monthlySettled, sheetIdCache, posted, timers, failLog, delivered,
                  unhandled, swallowed, budget, hist >>

\* ----------------------------------------- resumptions: /coffee_clear_dm
\* conversations.open has answered; conversations.history is awaited
CdOpen(p) ==
  /\ proc[p].pc = "cd_open"
  /\ proc' = [proc EXCEPT ![p] = [@ EXCEPT !.pc = "cd_history"]]
  /\ UNCHANGED << now, sheet, storeSheetId, botUserId, userChoices, userMessageRefs,
                  monthlySettled, sheetIdCache, posted, timers, failLog, delivered,
                  unhandled, swallowed, budget, hist >>

\* isOwn = !!(msg.user && botUserId && msg.user === botUserId): the control
\* messages are the bot's own, and none is when botUserId is null
OwnMessages(u) ==
  IF botUserId = NoBot THEN {}
  ELSE {m.ts : m \in {x \in posted : x.user = u /\ x.live}}
\* the loop over history.messages: the next own message, or the final respond
CdNext(rec, msgs) ==
  [rec EXCEPT !.pc = IF msgs = {} THEN "cd_respond" ELSE "cd_delete", !.msgs = msgs]
\* history.messages lists the newest message first
Newest(msgs) == CHOOSE t \in msgs : \A x \in msgs : x <= t

\* conversations.history has answered with the messages of the DM
CdHistory(p) ==
  /\ proc[p].pc = "cd_history"
  /\ proc' = [proc EXCEPT ![p] = CdNext(@, OwnMessages(@.user))]
  /\ UNCHANGED << now, sheet, storeSheetId, botUserId, userChoices, userMessageRefs,
                  monthlySettled, sheetIdCache, posted, timers, failLog, delivered,
                  unhandled, swallowed, budget, hist >>

\* chat.delete has answered: the message is gone (a message that another
\* /coffee_clear_dm removed meanwhile makes the call fail, which is ignored)
CdDelete(p) ==
  LET rec == proc[p]
      ts == Newest(rec.msgs)
  IN
  /\ rec.pc = "cd_delete"
  /\ posted' = {IF m.user = rec.user /\ m.ts = ts THEN [m EXCEPT !.live = FALSE] ELSE m :
                  m \in posted}
  /\ proc' = [proc EXCEPT ![p] = CdNext(rec, rec.msgs \ {ts})]
  /\ UNCHANGED << now, sheet, storeSheetId, botUserId, userChoices, userMessageRefs,
                  monthlySettled, sheetIdCache, timers, failLog, delivered,
                  unhandled, swallowed, budget, hist >>

\* respond() has shown the number of deleted messages, or the error notice of
\* the catch block
CdRespond(p) ==
  /\ proc[p].pc \in {"cd_respond", "cd_error"}
  /\ proc' = [proc EXCEPT ![p] = Idle]
  /\ UNCHANGED << now, sheet, storeSheetId, botUserId, userChoices, userMessageRefs,
                  monthlySettled, sheetIdCache, posted, timers, failLog, delivered,
                  unhandled, swallowed, budget, hist >>

\* ----------------------------------------------- resumptions: the broadcast
\* users.list has answered: filter the members and start the loop
BcList(p) ==
  LET next == BcStep([proc[p] EXCEPT !.members = FilterMembers(Directory, 1)], 1)
  IN
  /\ proc[p].pc = "bc_list"
  /\ timers' = TimersAfter(proc[p], next)
  /\ proc' = [proc EXCEPT ![p] = next]
  /\ UNCHANGED << now, sheet, storeSheetId, botUserId, userChoices, userMessageRefs,
                  monthlySettled, sheetIdCache, posted, failLog, delivered,
                  unhandled, swallowed, budget, hist >>

\* ------------------------------------------------------------- failures
RejectedDropsRef(p) ==
  LET rec == proc[p]
      next ==
        IF rec.kind = "slash" /\ rec.pc \in SouPcs
          THEN [rec EXCEPT !.pc = "fb_summary", !.date = now,
                           !.channelId = NoChannel, !.sent = {}]
        ELSE IF rec.kind = "broadcast" /\ rec.pc \in SouPcs
          THEN BcStep(rec, BcAfterThrow(rec.idx, Len(rec.members)))
        ELSE IF rec.pc = "cd_delete"
          THEN CdNext(rec, rec.msgs \ {Newest(rec.msgs)})
        ELSE IF rec.pc \in {"cd_open", "cd_history", "cd_respond"}
          THEN [rec EXCEPT !.pc = "cd_error", !.msgs = {}]
        ELSE Idle
  IN
  /\ proc' = [proc EXCEPT ![p] = next]
  /\ failLog' = IF rec.kind = "broadcast" /\ rec.pc \in SouPcs
                THEN [failLog EXCEPT ![rec.user] = @ + 1] ELSE failLog
  /\ timers' = TimersAfter(rec, next)
  /\ swallowed' = (swallowed \/ (rec.kind = "slash" /\ rec.pc \notin SouPcs))
  /\ unhandled' = (unhandled \/ rec.kind \in Interactions \/ rec.pc = "cd_error")
  /\ userMessageRefs' = IF rec.pc \in SouPcs
                        THEN [userMessageRefs EXCEPT ![rec.user] = NoRef]
                        ELSE userMessageRefs
  /\ UNCHANGED << now, sheet, storeSheetId, botUserId, userChoices,
                  monthlySettled, sheetIdCache, posted, delivered, hist >>

\* The awaited call of slot p rejects.  /coffee_tea catches a failure of
\* sendOrUpdateControlMessage and tries the fallback, whose failure it only logs;
\* the broadcast logs a member's failure and goes on, and logs a failure of
\* users.list; /coffee_clear_dm ignores a failed chat.delete and answers any
\* other failure with an error notice; the other handlers have no try/catch, so
\* the rejection leaves them.
Rejected(p) ==
  LET rec == proc[p]
      next ==
        IF rec.kind = "slash" /\ rec.pc \in SouPcs
          THEN [rec EXCEPT !.pc = "fb_summary", !.date = now,
                           !.channelId = NoChannel, !.sent = {}]
        ELSE IF rec.kind = "broadcast" /\ rec.pc \in SouPcs
          THEN BcStep(rec, BcAfterThrow(rec.idx, Len(rec.members)))
        ELSE IF rec.pc = "cd_delete"
          THEN CdNext(rec, rec.msgs \ {Newest(rec.msgs)})
        ELSE IF rec.pc \in {"cd_open", "cd_history", "cd_respond"}
          THEN [rec EXCEPT !.pc = "cd_error", !.msgs = {}]
        ELSE Idle
  IN
  /\ proc' = [proc EXCEPT ![p] = next]
  /\ failLog' = IF rec.kind = "broadcast" /\ rec.pc \in SouPcs
                THEN [failLog EXCEPT ![rec.user] = @ + 1] ELSE failLog
  /\ timers' = TimersAfter(rec, next)
  /\ swallowed' = (swallowed \/ (rec.kind = "slash" /\ rec.pc \notin SouPcs))
  /\ unhandled' = (unhandled \/ rec.kind \in Interactions \/ rec.pc = "cd_error")
  /\ UNCHANGED << now, sheet, storeSheetId, botUserId, userChoices, userMessageRefs,
                  monthlySettled, sheetIdCache, posted, delivered, hist >>

\* An external call fails for a reason of its own (network, rate limit, scope).
ApiFails(p) ==
  /\ proc[p].pc \in Awaiting
  /\ budget.fails < MaxFailures
  /\ budget' = [budget EXCEPT !.fails = @ + 1]
  /\ Rejected(p)

\* chat.update of a message that is no longer in the DM: message_not_found
UpdateNotFound(p) ==
  /\ proc[p].pc = "sou_update"
  /\ ~MessageExists(proc[p].user, proc[p].ts)
  /\ Rejected(p)
  /\ UNCHANGED budget

\* ---------------------------------------------------------------- the clock
Tick ==
  /\ now < StartTime + MaxTicks
  /\ now' = now + 1
  /\ UNCHANGED << sheet, storeSheetId, botUserId, userChoices, userMessageRefs, monthlySettled,
                  sheetIdCache, posted, timers, failLog, delivered, proc, unhandled,
                  swallowed, budget, hist >>

\* --------------------------------------------------- the concurrent program
CountedTo(n) ==
  /\ budget.starts < n
  /\ budget' = [budget EXCEPT !.starts = @ + 1]
  /\ UNCHANGED hist
Counted == CountedTo(MaxStarts)
SlashCommand(p, u) == SlashCommandBody(p, u) /\ Counted
ChoiceAction(p, u, c) == ChoiceBody(p, u, c) /\ Counted
RevokeAction(p, u) == RevokeBody(p, u) /\ Counted
SettledToggle(p, u, selected) == SettledBody(p, u, selected) /\ Counted
MonthlyTally(p) == TallyBody(p) /\ Counted
TimerFires(p) == TimerBody(p) /\ Counted

ResumeLedger(p) ==
  \/ LcHeaderRead(p) \/ LcHeaderWrite(p) \/ LcAppend(p)
  \/ RvRead(p) \/ RvMeta(p) \/ RvDelete(p)
ResumeSou(p) == SouSummary(p) \/ SouOpen(p) \/ SouUpdate(p) \/ SouPost(p)
ResumeFallback(p) == FbSummary(p) \/ FbRespond(p)
ResumeTally(p) == TallyRead(p) \/ TallyPost(p)
ResumeClear(p) == CdOpen(p) \/ CdHistory(p) \/ CdDelete(p) \/ CdRespond(p)

\* The handlers that write the ledger or the control message, the tally and the
\* broadcast, two requests at a time.
Next ==
  \/ \E p \in Procs, u \in Users : SlashCommand(p, u)
  \/ \E p \in Procs, u \in Users, c \in Kinds : ChoiceAction(p, u, c)
  \/ \E p \in Procs, u \in Users : RevokeAction(p, u)
  \/ \E p \in Procs, u \in Users, selected \in BOOLEAN : SettledToggle(p, u, selected)
  \/ \E p \in Procs : MonthlyTally(p)
  \/ \E p \in Procs : TimerFires(p)
  \/ \E p \in Procs : ResumeLedger(p)
  \/ \E p \in Procs : ResumeSou(p)
  \/ \E p \in Procs : ResumeFallback(p)
  \/ \E p \in Procs : ResumeTally(p)
  \/ \E p \in Procs : BcList(p)
  \/ \E p \in Procs : ApiFails(p)
  \/ Tick

Spec == Init /\ [][Next]_vars

\* The triggers of the control message alone: /coffee_tea, the settlement
\* checkbox and the monthly broadcast.  The ledger is only read by them.
NextReconcile ==
  \/ \E p \in Procs, u \in Users : SlashCommand(p, u)
  \/ \E p \in Procs, u \in Users, selected \in BOOLEAN : SettledToggle(p, u, selected)
  \/ \E p \in Procs : TimerFires(p)
  \/ \E p \in Procs : ResumeSou(p)
  \/ \E p \in Procs : ResumeFallback(p)
  \/ \E p \in Procs : BcList(p)
  \/ \E p \in Procs : ApiFails(p)
  \/ Tick

SpecReconcile == InitFirstSheet /\ [][NextReconcile]_vars

\* The broadcast timer alone.  Every awaited call is answered or rejected in the
\* end (the clients time out), so a suspended broadcast is always resumed.
NextTimer ==
  \/ \E p \in Procs : TimerFires(p)
  \/ \E p \in Procs : BcList(p)
  \/ \E p \in Procs : ResumeSou(p)
  \/ \E p \in Procs : ApiFails(p)
  \/ Tick

SpecTimer ==
  /\ InitFirstSheet
  /\ [][NextTimer]_vars
  /\ \A p \in Procs : WF_vars(BcList(p) \/ ResumeSou(p))

\* The handlers that change the ledger, within one month: the coffee, tea and
\* undo buttons, pressed while earlier presses are still being handled.
ChoicePress(p, u, c) == ChoiceBody(p, u, c) /\ CountedTo(MaxPresses)
RevokePress(p, u) == RevokeBody(p, u) /\ CountedTo(MaxPresses)
NextLedger ==
  \/ \E p \in Procs, u \in Users, c \in Kinds : ChoicePress(p, u, c)
  \/ \E p \in Procs, u \in Users : RevokePress(p, u)
  \/ \E p \in Procs : ResumeLedger(p)
  \/ \E p \in Procs : ResumeSou(p)
  \/ \E p \in Procs : ApiFails(p)

SpecLedger == Init /\ [][NextLedger]_vars

\* A process started over a ledger that already holds rows, written by an
\* earlier run of the bot or edited by hand: the counters start empty.
RestartRows ==
  { Row("U1", StartTime, "coffee"),
    Row("U2", StartTime, "tea"),
    [user |-> "U1", date |-> toISOString(StartTime), choice |-> "latte", price |-> 300] }
RestartSheets ==
  { << >> } \cup
  { << Header >> \o rows : rows \in UNION { [1..k -> RestartRows] : k \in 1..MaxLedger } }
InitRestart ==
  /\ now = StartTime
  /\ sheet \in RestartSheets
  /\ storeSheetId = 0
  /\ botUserId = "B0"
  /\ Fresh
SlashPress(p, u) == SlashCommandBody(p, u) /\ CountedTo(MaxPresses)
NextRestart ==
  \/ \E p \in Procs, u \in Users : SlashPress(p, u)
  \/ \E p \in Procs, u \in Users, c \in Kinds : ChoicePress(p, u, c)
  \/ \E p \in Procs, u \in Users : RevokePress(p, u)
  \/ \E p \in Procs : ResumeLedger(p)
  \/ \E p \in Procs : ResumeSou(p)

SpecRestart == InitRestart /\ [][NextRestart]_vars

\* One button press after the other, each handled to its end before the next,
\* every external call succeeding; the clock moves between the presses.
SerialChoice(u, c) ==
  /\ AllIdle
  /\ Len(hist) < MaxOps
  /\ ChoiceBody("h1", u, c)
  /\ hist' = Append(hist, [op |-> c, user |-> u, t |-> now])
  /\ UNCHANGED budget
SerialUndo(u) ==
  /\ AllIdle
  /\ Len(hist) < MaxOps
  /\ RevokeBody("h1", u)
  /\ hist' = Append(hist, [op |-> "undo", user |-> u, t |-> now])
  /\ UNCHANGED budget
SerialTick == AllIdle /\ Tick
NextSerial ==
  \/ \E u \in Users, c \in Kinds : SerialChoice(u, c)
  \/ \E u \in Users : SerialUndo(u)
  \/ \E p \in Procs : ResumeLedger(p)
  \/ \E p \in Procs : ResumeSou(p)
  \/ SerialTick

SpecSerial == Init /\ [][NextSerial]_vars

\* One button press after the other within one month, where an external call of
\* the handler may fail.
NextSerialFail ==
  \/ \E u \in Users, c \in Kinds : SerialChoice(u, c)
  \/ \E u \in Users : SerialUndo(u)
  \/ \E p \in Procs : ResumeLedger(p)
  \/ \E p \in Procs : ResumeSou(p)
  \/ \E p \in Procs : ApiFails(p)

SpecSerialFail == Init /\ [][NextSerialFail]_vars

\* /coffee_clear_dm beside the triggers of the control message: /coffee_tea and
\* the settlement checkbox, within one month.
ClearDm(p, u) == ClearBody(p, u) /\ CountedTo(MaxTriggers)
SlashTrigger(p, u) == SlashCommandBody(p, u) /\ CountedTo(MaxTriggers)
SettledTrigger(p, u, selected) == SettledBody(p, u, selected) /\ CountedTo(MaxTriggers)
InitClear ==
  /\ now = StartTime
  /\ sheet = << >>
  /\ storeSheetId = 0
  /\ botUserId \in BotUserIds
  /\ Fresh
NextClear ==
  \/ \E p \in Procs, u \in Users : ClearDm(p, u)
  \/ \E p \in Procs, u \in Users : SlashTrigger(p, u)
  \/ \E p \in Procs, u \in Users, selected \in BOOLEAN : SettledTrigger(p, u, selected)
  \/ \E p \in Procs : ResumeSou(p)
  \/ \E p \in Procs : ResumeFallback(p)
  \/ \E p \in Procs : ResumeClear(p)
  \/ \E p \in Procs : ApiFails(p)
  \/ \E p \in Procs : UpdateNotFound(p)

SpecClear == InitClear /\ [][NextClear]_vars

\* ------------------------------------------ the readers over any ledger
\* Rows as the bot writes them, and rows as a person editing the spreadsheet
\* leaves them: another month, the same month of another year, a date and a
\* price that do not parse, a choice that is neither coffee nor tea.
SampleRows ==
  { Row("U1", StartTime, "coffee"),
    Row("U1", StartTime, "tea"),
    Row("U2", StartTime, "coffee"),
    Row("U1", StartTime + 1, "coffee"),
    Row("U1", StartTime + 12, "tea"),
    [user |-> "U1", date |-> << 0 >>, choice |-> "coffee", price |-> coffeePrice],
    [user |-> "U1", date |-> toISOString(StartTime), choice |-> "latte", price |-> 300],
    [user |-> "U2", date |-> toISOString(StartTime), choice |-> "tea", price |-> -1] }
SampleSheets ==
  { << >> } \cup
  { << first >> \o rows :
      first \in {Header, EmptyRow},
      rows \in UNION { [1..k -> SampleRows] : k \in 0..MaxLedger } }

InitRead ==
  /\ now = StartTime
  /\ sheet \in SampleSheets
  /\ storeSheetId = 0
  /\ botUserId = "B0"
  /\ Fresh

\* getUserMonthlySummary(userId, date), as buildControlBlocks calls it
MonthlySummaryFor(p, u, d) ==
  /\ proc[p].pc = "idle"
  /\ proc' = [proc EXCEPT ![p] =
       [Idle EXCEPT !.pc = "shown", !.kind = "summary", !.user = u, !.date = d,
                    !.summary = [x \in {u} |-> getUserMonthlySummary(sheet, u, d)]]]
  /\ UNCHANGED << now, sheet, storeSheetId, botUserId, userChoices, userMessageRefs,
                  monthlySettled, sheetIdCache, posted, timers, failLog, delivered,
                  unhandled, swallowed, budget, hist >>
\* the summary has been rendered
Shown(p) ==
  /\ proc[p].pc = "shown"
  /\ proc' = [proc EXCEPT ![p] = Idle]
  /\ UNCHANGED << now, sheet, storeSheetId, botUserId, userChoices, userMessageRefs,
                  monthlySettled, sheetIdCache, posted, timers, failLog, delivered,
                  unhandled, swallowed, budget, hist >>
TallyCommand(p) == TallyBody(p) /\ UNCHANGED << budget, hist >>
NextRead ==
  \/ \E p \in Procs, u \in Users, d \in {StartTime, StartTime + 1} :
       MonthlySummaryFor(p, u, d)
  \/ \E p \in Procs : Shown(p)
  \/ \E p \in Procs : TallyCommand(p)
  \/ \E p \in Procs : ResumeTally(p)

SpecRead == InitRead /\ [][NextRead]_vars

\* ================================================================ claims

\* -------------------------------------------------------------------- C1
RowsOf(u, k) == {i \in 1..Len(sheet) : sheet[i].user = u /\ sheet[i].choice = k}
CounterOf(u, k) ==
  IF userChoices[u] = Undefined THEN 0
  ELSE IF k = "coffee" THEN userChoices[u].coffee ELSE userChoices[u].tea
InLedgerCall(p) ==
  proc[p].pc \in {"lc_hdr_read", "lc_hdr_write", "lc_append",
                  "rv_read", "rv_meta", "rv_delete"}

\* C1: in a process started against an empty ledger, with the calls of logChoice
\* and revokeLastChoice run one after the other and every external call
\* succeeding, after every call the counter userChoices[u][k] equals the number
\* of ledger rows of user u with choice k, for every user and both kinds.
C1_CountersMatchLedger ==
  (\A p \in Procs : ~InLedgerCall(p)) =>
    \A u \in Users, k \in Kinds : CounterOf(u, k) = Cardinality(RowsOf(u, k))

\* coffee, tea and an undo have been handled: one coffee is left and counted
C1_Witness ==
  /\ AllIdle
  /\ Len(hist) = 3 /\ hist[3].op = "undo" /\ hist[3].user = "U1"
  /\ CounterOf("U1", "coffee") = 1 /\ CounterOf("U1", "tea") = 0
  /\ Cardinality(RowsOf("U1", "coffee")) = 1

\* -------------------------------------------------------------------- C2
\* C2: in every reachable state, for every user and every month key, at most one
\* control message has been posted to the user's DM for that month.
C2_OneControlMessagePerMonth ==
  \A m1 \in posted, m2 \in posted :
    (m1.user = m2.user /\ m1.monthKey = m2.monthKey) => m1.ts = m2.ts

\* -------------------------------------------------------------------- C3
\* The step in which sendOrUpdateControlMessage of slot p reads the record and
\* issues its chat call.
Decides(p) ==
  /\ proc[p].pc \in {"sou_summary", "sou_open"}
  /\ proc'[p].pc \in {"sou_post", "sou_update"}
\* The month key the invocation computed when it was called (monthKey, line 175).
MonthKeyOf(p) == << proc[p].date \div 12, (proc[p].date % 12) + 1 >>

\* C3: an invocation of sendOrUpdateControlMessage(u) posts exactly when no
\* reference is stored for u or the stored month key differs from the month key
\* the invocation computed, and updates otherwise; it never issues both calls;
\* an update creates no message and leaves the reference alone; a post creates
\* one message and stores a reference to it that carries that month key.
C3_PostOrUpdate ==
  /\ [](\A p \in Procs : Cardinality(proc[p].sent) <= 1)
  /\ [][\A p \in Procs :
         /\ Decides(p) =>
              /\ (proc'[p].pc = "sou_post") <=>
                   \/ userMessageRefs[proc[p].user] = NoRef
                   \/ userMessageRefs[proc[p].user].monthKey # MonthKeyOf(p)
              /\ proc'[p].sent = {IF proc'[p].pc = "sou_post" THEN "post" ELSE "update"}
         /\ (proc[p].pc = "sou_update" /\ proc'[p] # proc[p]) =>
              /\ posted' = posted
              /\ userMessageRefs' = userMessageRefs
         /\ (proc[p].pc = "sou_post" /\ proc'[p] # proc[p] /\ posted' # posted) =>
              /\ Cardinality(posted' \ posted) = 1
              /\ \A m \in posted' \ posted :
                   /\ m.user = proc[p].user
                   /\ m.monthKey = MonthKeyOf(p)
                   /\ userMessageRefs'[m.user].ts = m.ts
                   /\ userMessageRefs'[m.user].monthKey = MonthKeyOf(p)
      ]_vars

\* the month has rolled over: a post is under way although a reference is stored
C3_Witness ==
  \E p \in Procs :
    /\ proc[p].pc = "sou_post"
    /\ userMessageRefs[proc[p].user] # NoRef
    /\ userMessageRefs[proc[p].user].monthKey # MonthKeyOf(p)

\* -------------------------------------------------------------------- C4
NoRowOf(rows, u) == \A i \in 1..Len(rows) : rows[i].user # u

\* C4: revokeLastChoice(u) for a user with no ledger row is a no-op: neither of
\* its steps (the call, and the resumption with the rows read) changes the
\* ledger or a counter, and no delete request is issued.
C4_UndoWithoutRowsIsNoOp ==
  [][\A p \in Procs :
       /\ (proc[p].pc = "idle" /\ proc'[p].pc = "rv_read") =>
            sheet' = sheet /\ userChoices' = userChoices
       /\ (proc[p].pc = "rv_read" /\ proc'[p] # proc[p] /\ NoRowOf(sheet, proc[p].user)) =>
            /\ sheet' = sheet
            /\ userChoices' = userChoices
            /\ sheetIdCache' = sheetIdCache
            /\ proc'[p].pc \notin {"rv_meta", "rv_delete"}
    ]_vars

\* an undo of a user without rows has returned while the other user has a row
C4_Witness ==
  \E p \in Procs :
    /\ proc[p].kind = "revoke" /\ proc[p].pc = "sou_summary"
    /\ proc[p].lastIndex = -1
    /\ NoRowOf(sheet, proc[p].user)
    /\ Len(sheet) >= 2

\* -------------------------------------------------------------------- C5
\* The ledger as a stack per user: a choice pushes, an undo pops the user's
\* most recently pushed entry that is still there.
RemoveLastOf(st, u) ==
  LET mine == {i \in 1..Len(st) : st[i].user = u}
  IN IF mine = {} THEN st
     ELSE LET last == CHOOSE i \in mine : \A j \in mine : j <= i
          IN [j \in 1..(Len(st) - 1) |-> IF j < last THEN st[j] ELSE st[j + 1]]
RECURSIVE Replay(_)
Replay(h) ==
  IF Len(h) = 0 THEN << >>
  ELSE LET before == Replay(SubSeq(h, 1, Len(h) - 1))
           e == h[Len(h)]
       IN IF e.op = "undo" THEN RemoveLastOf(before, e.user)
          ELSE Append(before, [user |-> e.user, choice |-> e.op])
ExpectedSummary(st, u) ==
  LET coffees == Cardinality({i \in 1..Len(st) : st[i].user = u /\ st[i].choice = "coffee"})
      teas == Cardinality({i \in 1..Len(st) : st[i].user = u /\ st[i].choice = "tea"})
  IN [coffee |-> coffees, tea |-> teas, amount |-> (200 * coffees) + (150 * teas)]
DataRows == [i \in 1..(IF Len(sheet) = 0 THEN 0 ELSE Len(sheet) - 1) |->
               [user |-> sheet[i + 1].user, choice |-> sheet[i + 1].choice]]
OpsOf(u) == SelectSeq(hist, LAMBDA e : e.user = u)
Ops(h) == [i \in 1..Len(h) |-> h[i].op]

\* C5: after any serialized sequence of coffee/tea choices and undos within one
\* month, the rows left in the ledger are those of the per-user stack (each undo
\* removed the user's most recently appended remaining row), and the monthly
\* summary of every user is the count per kind and the price sum of the user's
\* remaining rows; coffee then tea gives {1, 1, 3.50} and one undo {1, 0, 2.00}.
C5_SummaryFollowsUndo ==
  (AllIdle /\ \A i \in 1..Len(hist) : hist[i].t = now) =>
    /\ Len(DataRows) = Len(Replay(hist))
    /\ \A i \in 1..Len(DataRows) : DataRows[i] = Replay(hist)[i]
    /\ \A u \in Users :
         /\ getUserMonthlySummary(sheet, u, now) = ExpectedSummary(Replay(hist), u)
         /\ Ops(OpsOf(u)) = << "coffee", "tea" >> =>
              getUserMonthlySummary(sheet, u, now) = [coffee |-> 1, tea |-> 1, amount |-> 350]
         /\ Ops(OpsOf(u)) = << "coffee", "tea", "undo" >> =>
              getUserMonthlySummary(sheet, u, now) = [coffee |-> 1, tea |-> 0, amount |-> 200]

\* U1 chose coffee, U2 chose tea, U1 chose tea and undid it
C5_Witness ==
  /\ AllIdle
  /\ Ops(OpsOf("U1")) = << "coffee", "tea", "undo" >>
  /\ Len(OpsOf("U2")) = 1
  /\ \A i \in 1..Len(hist) : hist[i].t = now
  /\ getUserMonthlySummary(sheet, "U1", now) = [coffee |-> 1, tea |-> 0, amount |-> 200]

\* -------------------------------------------------------------------- C6
MonthKeys == {<< t \div 12, (t % 12) + 1 >> : t \in StartTime..(StartTime + MaxTicks)}

\* C6: a step that sets or clears the settlement flag changes the value read for
\* one pair only, the current month key and the user who toggled: for every other
\* month key and every other user the flag reads as before.
C6_ToggleChangesOnlyItsEntry ==
  [][\A k \in MonthKeys, u \in Users :
       IsSettled(monthlySettled', k, u) # IsSettled(monthlySettled, k, u) =>
         /\ k = << now \div 12, (now % 12) + 1 >>
         /\ \E p \in Procs :
              /\ proc[p].pc = "idle"
              /\ proc'[p].kind = "settled"
              /\ proc'[p].user = u
    ]_vars

\* U1 settled the first month; in the next month the flag reads unset, and it
\* reads unset for U2 in the first month
C6_Witness ==
  /\ now = StartTime + 1
  /\ IsSettled(monthlySettled, << StartTime \div 12, (StartTime % 12) + 1 >>, "U1")
  /\ ~IsSettled(monthlySettled, << now \div 12, (now % 12) + 1 >>, "U1")
  /\ ~IsSettled(monthlySettled, << StartTime \div 12, (StartTime % 12) + 1 >>, "U2")

\* -------------------------------------------------------------------- C7
\* The members the filter of broadcastForCurrentMonth keeps: not a bot, not
\* deleted, identifier starting with U.
EligibleIds == {"U1", "U2", "U3"}
\* The members that are neither a bot nor deleted, whatever their identifier.
NonBotNonDeletedIds ==
  {Directory[i].id : i \in {j \in 1..Len(Directory) :
                              ~Directory[j].is_bot /\ ~Directory[j].deleted}}
NoBroadcastRunning == \A p \in Procs : proc[p].kind # "broadcast"
Handled(id) == delivered[id] + failLog[id]
BroadcastCovers(ids) ==
  /\ \A id \in AllIds \ ids : Handled(id) = 0
  /\ \A id \in ids : Handled(id) <= 1
  /\ (NoBroadcastRunning /\ \E id \in AllIds : Handled(id) > 0) =>
       \A id \in ids : Handled(id) = 1

\* C7: in a broadcast a failure for one member does not stop the batch: when the
\* broadcast is over every member that is not a bot, not deleted and whose
\* identifier starts with U has either been messaged once or had one failure
\* logged, never both and never neither; every other member is neither messaged
\* nor logged.
C7_BroadcastSurvivesFailures == BroadcastCovers(EligibleIds)

\* C7 as stated: every member that is not a bot and not deleted is messaged or
\* has its failure logged when the broadcast is over.
C7_EveryNonBotNonDeletedReached == BroadcastCovers(NonBotNonDeletedIds)

\* three members, the call for the first failed: one failure logged, the other
\* two messaged
C7_Witness ==
  /\ NoBroadcastRunning
  /\ failLog["U1"] = 1 /\ delivered["U1"] = 0
  /\ delivered["U2"] = 1 /\ delivered["U3"] = 1

\* -------------------------------------------------------------------- C8
\* The row's Date cell reads the year and month of d.
InMonth(row, d) == row.date = << d \div 12, (d % 12) + 1 >>
RECURSIVE PriceSum(_, _)
PriceSum(rows, which) ==
  IF which = {} THEN 0
  ELSE LET i == CHOOSE x \in which : TRUE
       IN (IF rows[i].price < 0 THEN 0 ELSE rows[i].price) + PriceSum(rows, which \ {i})

\* C8: getUserMonthlySummary(u, d) counts and sums exactly the rows of user u
\* whose date is in the year and month of d: the header, rows of other users, of
\* other months (the same month of another year too) and rows whose date does
\* not parse add nothing to the coffee count, the tea count or the amount.
C8_SummaryCountsExactly ==
  \A p \in Procs :
    proc[p].kind = "summary" =>
      LET u == proc[p].user
          counted == {i \in 1..Len(sheet) :
                        sheet[i].user = u /\ InMonth(sheet[i], proc[p].date)}
      IN proc[p].summary[u] =
           [coffee |-> Cardinality({i \in counted : sheet[i].choice = "coffee"}),
            tea    |-> Cardinality({i \in counted : sheet[i].choice = "tea"}),
            amount |-> PriceSum(sheet, counted)]

\* a coffee of this month beside a row of the same month next year: one coffee
C8_Witness ==
  \E p \in Procs :
    /\ proc[p].kind = "summary" /\ proc[p].user = "U1" /\ proc[p].date = StartTime
    /\ Len(sheet) = 3
    /\ sheet[2] = Row("U1", StartTime, "coffee")
    /\ sheet[3] = Row("U1", StartTime + 12, "tea")
    /\ proc[p].summary["U1"] = [coffee |-> 1, tea |-> 0, amount |-> 200]

\* -------------------------------------------------------------------- C9
\* C9: for every user seen in the ledger, the coffee count, tea count and amount
\* /monthly_tally reports equal getUserMonthlySummary(user, now).
C9_TallyIsMonthlySummary ==
  \A p \in Procs :
    proc[p].pc = "tally_post" =>
      \A u \in DOMAIN proc[p].summary :
        proc[p].summary[u] = getUserMonthlySummary(sheet, u, proc[p].date)

\* ------------------------------------------------------------------- C10
\* C10: no failure of an external call leaves the handler of a user interaction,
\* and none is only written to the log: each is caught in the handler and shown
\* to the user.
C10_FailuresCaughtAndSurfaced == ~unhandled /\ ~swallowed

\* ------------------------------------------------------------------- C11
CountIn(uc, u, k) ==
  IF uc[u] = Undefined THEN 0 ELSE IF k = "coffee" THEN uc[u].coffee ELSE uc[u].tea
RowCount(st, u, k) ==
  Cardinality({i \in 1..Len(st) : st[i].user = u /\ st[i].choice = k})

\* C11: when values.append of logChoice(u, k) fails, the ledger and the counters
\* are left as they are at that moment: no row is added and the increment made
\* at the start of the call is not taken back.  When no call has failed before
\* (so the counters matched the ledger when the button was pressed), the counter
\* of (u, k) is then one greater than the number of u's rows of kind k, and every
\* other counter equals its number of rows.
C11_FailedAppendKeepsIncrement ==
  [][\A p \in Procs :
       (proc[p].pc = "lc_append" /\ proc'[p].pc = "idle") =>
         /\ sheet' = sheet
         /\ userChoices' = userChoices
         /\ budget.fails = 0 =>
              \A u \in Users, k \in Kinds :
                CountIn(userChoices', u, k) =
                  RowCount(sheet', u, k) +
                    (IF u = proc[p].user /\ k = proc[p].choice THEN 1 ELSE 0)
    ]_vars

\* the first coffee of U1: the header was written, the append failed
C11_Witness ==
  /\ AllIdle
  /\ budget.fails = 1
  /\ Len(hist) = 1 /\ hist[1].op = "coffee" /\ hist[1].user = "U1"
  /\ sheet = << Header >>
  /\ userChoices["U1"] = [coffee |-> 1, tea |-> 0]

\* ------------------------------------------------------------------- C12
\* C12: every row a revokeLastChoice(u) deletes is a row of u and is u's most
\* recent row at the moment of the deletion, however the handlers interleave
\* between the ledger read and the delete request.
C12_UndoDeletesOwnLatestRow ==
  [][\A p \in Procs :
       (proc[p].pc = "rv_delete" /\ proc'[p].pc = "sou_summary" /\ sheet' # sheet) =>
         /\ sheet[proc[p].lastIndex + 1].user = proc[p].user
         /\ proc[p].lastIndex = LastIndexOf(sheet, proc[p].user)
    ]_vars

\* ------------------------------------------------------------------- C13
\* C13: once getSheetId has resolved the sheet's identifier, whatever value the
\* spreadsheet gave it, no later call of getSheetId asks for the metadata again:
\* a call that awaits spreadsheets.get is made only while nothing is cached.
C13_SheetIdResolvedOnce ==
  [][\A p \in Procs :
       (proc[p].pc = "rv_read" /\ proc'[p].pc = "rv_meta") => sheetIdCache = NullId
    ]_vars

\* ------------------------------------------------------------------- C14
\* C14: ensureHeaderRow writes the header only over a first row that is entirely
\* empty at the moment of the write, so a first row that holds something is
\* never overwritten and the header is written at most once, also when two
\* appends interleave between the first-row check and the header write.
C14_HeaderOnlyOverEmptyRow ==
  [][\A p \in Procs :
       (proc[p].pc = "lc_hdr_write" /\ proc'[p].pc = "lc_append") =>
         FirstRowIsEmpty(sheet)
    ]_vars

\* ------------------------------------------------------------------- C15
BroadcastsRunning == Cardinality({p \in Procs : proc[p].kind = "broadcast"})

\* C15: there is one broadcast timer: at every moment either one timer is
\* pending and no broadcast runs, or none is pending and the one broadcast its
\* firing started is running; and every broadcast that was started, whether its
\* calls succeed, some fail or users.list itself fails, is followed by a state
\* with a timer pending again.
C15_SingleRecurringTimer ==
  /\ [](timers + BroadcastsRunning = 1)
  /\ ((BroadcastsRunning > 0) ~> (timers = 1))

\* users.list failed, nobody was messaged, and the timer is set again
C15_Witness ==
  /\ budget.starts = 1 /\ budget.fails = 1
  /\ BroadcastsRunning = 0
  /\ \A id \in AllIds : delivered[id] = 0 /\ failLog[id] = 0
  /\ timers = 1

\* ------------------------------------------------------------------- C16
\* The position (1-based) of u's most recent row, 0 when u has none.
LatestRowOf(st, u) ==
  LET own == {i \in 2..Len(st) : st[i].user = u}
  IN IF own = {} THEN 0 ELSE CHOOSE i \in own : \A j \in own : j <= i
Without(st, i) == SubSeq(st, 1, i - 1) \o SubSeq(st, i + 1, Len(st))
UnknownKindLatest(st, u) ==
  LatestRowOf(st, u) > 0 /\ st[LatestRowOf(st, u)].choice \notin Kinds

\* C16: revokeLastChoice(u), when u's most recent row has a choice that is
\* neither coffee nor tea, leaves every coffee and tea counter as it is, goes on
\* to the delete request, and the request removes that row.
C16_UnknownKindStillDeleted ==
  [][\A p \in Procs :
       /\ (proc[p].pc = "rv_read" /\ proc'[p] # proc[p]
              /\ UnknownKindLatest(sheet, proc[p].user)) =>
            /\ \A u \in Users, k \in Kinds :
                 CountIn(userChoices', u, k) = CountIn(userChoices, u, k)
            /\ proc'[p].pc \in {"rv_meta", "rv_delete"}
            /\ proc'[p].lastIndex + 1 = LatestRowOf(sheet, proc[p].user)
       /\ (proc[p].pc = "rv_delete" /\ proc'[p].pc = "sou_summary"
              /\ UnknownKindLatest(sheet, proc[p].user)
              /\ proc[p].lastIndex + 1 = LatestRowOf(sheet, proc[p].user)) =>
            sheet' = Without(sheet, LatestRowOf(sheet, proc[p].user))
    ]_vars

\* The same restricted to a user who has a counters entry.
UnknownKindDeletedGivenCounters ==
  [][\A p \in Procs :
       /\ (proc[p].pc = "rv_read" /\ proc'[p] # proc[p]
              /\ userChoices[proc[p].user] # Undefined
              /\ UnknownKindLatest(sheet, proc[p].user)) =>
            /\ \A u \in Users, k \in Kinds :
                 CountIn(userChoices', u, k) = CountIn(userChoices, u, k)
            /\ proc'[p].pc \in {"rv_meta", "rv_delete"}
            /\ proc'[p].lastIndex + 1 = LatestRowOf(sheet, proc[p].user)
       /\ (proc[p].pc = "rv_delete" /\ proc'[p].pc = "sou_summary"
              /\ UnknownKindLatest(sheet, proc[p].user)
              /\ proc[p].lastIndex + 1 = LatestRowOf(sheet, proc[p].user)) =>
            sheet' = Without(sheet, LatestRowOf(sheet, proc[p].user))
    ]_vars

\* ------------------------------------------------------------------- C17
\* C17: revokeLastChoice(u) for a user with a ledger row and no counters entry
\* raises no error: having read the rows it goes on to the delete request for
\* u's most recent row.
C17_UndoWithoutCountersCompletes ==
  [][\A p \in Procs :
       (proc[p].pc = "rv_read" /\ proc'[p] # proc[p]
          /\ LatestRowOf(sheet, proc[p].user) > 0
          /\ userChoices[proc[p].user] = Undefined) =>
         /\ proc'[p].pc \in {"rv_meta", "rv_delete"}
         /\ proc'[p].lastIndex + 1 = LatestRowOf(sheet, proc[p].user)
    ]_vars

\* ------------------------------------------------------------------- C18
\* C18: whenever a control-message reference is stored for a user, the message
\* it names is still in the user's DM.
C18_StoredReferenceIsLive ==
  \A u \in Users :
    userMessageRefs[u] # NoRef => MessageExists(u, userMessageRefs[u].ts)

\* ------------------------------------------------------------------- C19
\* C19: the stored reference of a user changes only in the step in which a
\* chat.postMessage for that user has answered, and then names the message just
\* posted; a failed call inside sendOrUpdateControlMessage and an answered
\* chat.update leave every reference as it was.
C19_ReferenceChangesOnlyOnPost ==
  [][/\ \A u \in AllIds :
          userMessageRefs'[u] # userMessageRefs[u] =>
            /\ \E p \in Procs :
                 proc[p].pc = "sou_post" /\ proc[p].user = u /\ proc'[p] # proc[p]
            /\ \E m \in posted' \ posted :
                 m.user = u /\ m.ts = userMessageRefs'[u].ts
     /\ budget'.fails > budget.fails => userMessageRefs' = userMessageRefs
     /\ (\E p \in Procs : proc[p].pc = "sou_update" /\ proc'[p] # proc[p]) =>
          userMessageRefs' = userMessageRefs
    ]_vars

\* /coffee_tea of U1 failed inside sendOrUpdateControlMessage and is in its
\* fallback; the reference the first trigger stored is still there
C19_Witness ==
  \E p \in Procs :
    /\ proc[p].kind = "slash" /\ proc[p].user = "U1" /\ proc[p].pc = "fb_summary"
    /\ budget.starts = 2 /\ budget.fails = 1
    /\ userMessageRefs["U1"].ts = 1
    /\ \E m \in posted : m.user = "U1" /\ m.ts = 1

====
